---- MODULE Spec2Model ----
(***************************************************************************)
(* Model of scripts/assembly_example.py: the screw-progress control loop   *)
(* AssemblyDemo.screw() and the frame construction at the start of main(). *)
(*                                                                         *)
(* Units.  Heights (PointStamped.point.z of /screw_pos) are integers in    *)
(* millimetres, so the 0.006 of the loop condition is 6.  Angles of panda  *)
(* joint 7 (joint_goal[6]) are integers in units of pi/8, so pi/2 is 4,    *)
(* 7*pi/8 is 7 and -7*pi/8 is -7.  Fixture offsets are in 0.1 mm.          *)
(***************************************************************************)
EXTENDS Integers, Sequences, FiniteSets, TLC

VARIABLES
    pc,          \* position of the thread inside screw() / main()
    z0, z1, z2,  \* the three locals of screw(), lines 201-203, 225
    joint6,      \* the physical angle of the rotation joint
    joint_goal6, \* the local joint_goal[6] of screw()
    gripper,     \* last gripper command issued: "open" or "closed"
    sensor,      \* /screw_pos feed: "live", "script" or "stalled"
    feed,        \* samples a scripted feed will still publish
    events,      \* observer: what the current loop iteration (or the preamble) did
    kind,        \* observer: "engage"/"reset", the branch line 210 took last
    iters,       \* observer: loop body entries, saturating at MaxIter
    quat,        \* the /nut_quat message as (x, y, z, w), line 311
    sensed,      \* observer: z_axis as line 313 extracted it
    z_axis, x_axis, y_axis,  \* the basis of lines 313-327
    pos_offset_fixture_x, pos_offset_fixture_z,  \* lines 320-321, 329-330
    q2, q_fixture,           \* lines 319, 322, 328, 331 (by their Euler angles)
    branch,      \* observer: "degenerate"/"general", the branch line 315 took
    grasp,       \* the grasp goal close_gripper() published: "idle"/"pending"/"done"
    motion,      \* whether a go() may stop short: "any", or "ideal" (never)
    nut_pos, fixture_pos, screw_head_pos,  \* the points main() received
    pose_goal,   \* the working pose of main()
    waypoints,   \* the list main() appends to
    plan,        \* the waypoints the last plan_cartesian_path() was given
    fraction,    \* the fraction the last plan_cartesian_path() returned
    mlog,        \* observer: what main() has done, in order
    exc,         \* the exception raised in main()'s try block, or "none"
    abortedAt    \* observer: pc when the exception was raised

screwVars == <<z0, z1, z2, joint6, joint_goal6, gripper, sensor, feed,
               events, kind, iters, grasp>>

mainVars == <<motion, nut_pos, fixture_pos, screw_head_pos, pose_goal,
              waypoints, plan, fraction, mlog, exc, abortedAt>>

frameVars == <<quat, sensed, z_axis, x_axis, y_axis, pos_offset_fixture_x,
               pos_offset_fixture_z, q2, q_fixture, branch>>

vars == <<pc, screwVars, frameVars, mainVars>>

----------------------------------------------------------------------------
(* Bounds of the model *)

ZMin == 93
ZMax == 100
MaxIter == 5

(* Program constants *)

Threshold == 6
ForwardLimit == 4
ForwardTarget == 7
StartAngle == -7
JointMax == 7

Heights == ZMin..ZMax
Angles == (-JointMax)..JointMax

Abs(n) == IF n < 0 THEN -n ELSE n

\* Where a blocking move_group.go(joint_goal, wait=True) may leave the joint:
\* at the target, or anywhere on the way when the motion fails or is cut short
\* (the return value of go() is ignored by the code).
go_outcomes(from, target) ==
    IF motion = "ideal" THEN {target}
    ELSE IF from <= target THEN from..target ELSE target..from

\* The samples rospy.wait_for_message('/screw_pos') can return next.  It has no
\* timeout: with nothing published the call does not return.
next_samples ==
    CASE sensor = "live"   -> Heights
      [] sensor = "script" -> IF feed = <<>> THEN {} ELSE {Head(feed)}
      [] OTHER             -> {}

feed_after == IF sensor = "script" THEN Tail(feed) ELSE feed

Count(n) == IF n < MaxIter THEN n + 1 ELSE n

\* How the observer names a go() by the joint_goal[6] it was given.
go_event(target) ==
    CASE target = ForwardTarget -> "go_fwd"
      [] target = StartAngle    -> "go_back"
      [] OTHER                  -> "go_other"

----------------------------------------------------------------------------
(* screw(), lines 188-225 *)

\* Variants of the loop condition: the boundary taken as "not yet", the
\* difference taken the other way round, the never-updated z1 for z2.
screw_loop_condition_le == z0 - z2 <= Threshold
screw_loop_condition_flipped == z2 - z0 < Threshold
screw_loop_condition_z1 == z0 - z1 < Threshold

\* while z0 - z2 < 0.006  (line 207)
screw_loop_condition == z0 - z2 < Threshold

\* Variant of the branch condition with the boundary exclusive.
screw_reset_condition_gt == joint_goal6 > ForwardLimit

\* if joint_goal[6] >= np.pi / 2  (line 210)
screw_reset_condition == joint_goal6 >= ForwardLimit

\* Variant of lines 189-193 without the open_gripper() of line 193.
screw_open_gripper_skipped ==
    /\ pc = "screw"
    /\ pc' = "pre_read"
    /\ UNCHANGED <<z0, z1, z2, joint6, joint_goal6, gripper, sensor, feed,
                   events, kind, iters, grasp, frameVars, mainVars>>

\* lines 189-193: velocity scaling, then self.open_gripper()
screw_open_gripper ==
    /\ pc = "screw"
    /\ pc' = "pre_read"
    /\ gripper' = "open"
    /\ grasp' = "idle"
    /\ events' = Append(events, "open")
    /\ UNCHANGED <<z0, z1, z2, joint6, joint_goal6, sensor, feed,
                   kind, iters, frameVars, mainVars>>

\* lines 194-195: joint_goal = get_current_joint_values(); joint_goal[6] = -7pi/8
screw_pre_read ==
    /\ pc = "pre_read"
    /\ pc' = "pre_go"
    /\ joint_goal6' = StartAngle
    /\ UNCHANGED <<z0, z1, z2, joint6, gripper, sensor, feed, events,
                   kind, iters, grasp, frameVars, mainVars>>

\* lines 196-197: move_group.go(joint_goal, wait=True); move_group.stop()
screw_pre_go ==
    /\ pc = "pre_go"
    /\ pc' = "wait_z0"
    /\ \E a \in go_outcomes(joint6, joint_goal6) : joint6' = a
    /\ events' = events \o <<go_event(joint_goal6), "stop">>
    /\ UNCHANGED <<z0, z1, z2, joint_goal6, gripper, sensor, feed,
                   kind, iters, grasp, frameVars, mainVars>>

\* lines 199-205: the sample before the loop; z1 = z0; z2 = z0
screw_wait_z0 ==
    /\ pc = "wait_z0"
    /\ \E z \in next_samples :
         /\ z0' = z
         /\ z1' = z
         /\ z2' = z
    /\ feed' = feed_after
    /\ pc' = "test"
    /\ UNCHANGED <<joint6, joint_goal6, gripper, sensor, events,
                   kind, iters, grasp, frameVars, mainVars>>

\* line 207, condition true: the loop body is entered
screw_loop_enter ==
    /\ pc = "test"
    /\ screw_loop_condition
    /\ pc' = "read_joint"
    /\ events' = <<>>
    /\ iters' = Count(iters)
    /\ UNCHANGED <<z0, z1, z2, joint6, joint_goal6, gripper, sensor, feed,
                   kind, grasp, frameVars, mainVars>>

\* line 207, condition false: screw() returns
screw_loop_exit ==
    /\ pc = "test"
    /\ ~screw_loop_condition
    /\ pc' = "done"
    /\ UNCHANGED <<z0, z1, z2, joint6, joint_goal6, gripper, sensor, feed,
                   events, kind, iters, grasp, frameVars, mainVars>>

\* line 209: joint_goal = move_group.get_current_joint_values()
screw_read_joint ==
    /\ pc = "read_joint"
    /\ pc' = "branch"
    /\ joint_goal6' = joint6
    /\ events' = Append(events, "read")
    /\ UNCHANGED <<z0, z1, z2, joint6, gripper, sensor, feed,
                   kind, iters, grasp, frameVars, mainVars>>

\* line 210, true branch taken
screw_branch_reset ==
    /\ pc = "branch"
    /\ screw_reset_condition
    /\ pc' = "reset_open"
    /\ kind' = "reset"
    /\ UNCHANGED <<z0, z1, z2, joint6, joint_goal6, gripper, sensor, feed,
                   events, iters, grasp, frameVars, mainVars>>

\* line 210, else branch taken
screw_branch_engage ==
    /\ pc = "branch"
    /\ ~screw_reset_condition
    /\ pc' = "engage_close"
    /\ kind' = "engage"
    /\ UNCHANGED <<z0, z1, z2, joint6, joint_goal6, gripper, sensor, feed,
                   events, iters, grasp, frameVars, mainVars>>

\* line 211: self.open_gripper()
screw_reset_open ==
    /\ pc = "reset_open"
    /\ pc' = "reset_go"
    /\ gripper' = "open"
    /\ grasp' = "idle"
    /\ events' = Append(events, "open")
    /\ UNCHANGED <<z0, z1, z2, joint6, joint_goal6, sensor, feed,
                   kind, iters, frameVars, mainVars>>

\* lines 212-214: joint_goal[6] = -7pi/8; go(wait=True); stop()
screw_reset_go ==
    /\ pc = "reset_go"
    /\ pc' = "wait_z2"
    /\ joint_goal6' = StartAngle
    /\ \E a \in go_outcomes(joint6, StartAngle) : joint6' = a
    /\ events' = events \o <<go_event(joint_goal6'), "stop">>
    /\ UNCHANGED <<z0, z1, z2, gripper, sensor, feed,
                   kind, iters, grasp, frameVars, mainVars>>

\* Variant of line 217 that goes on to the rotation without the settle delay.
screw_engage_close_nosleep ==
    /\ pc = "engage_close"
    /\ pc' = "engage_go"
    /\ gripper' = "closed"
    /\ grasp' = "pending"
    /\ events' = Append(events, "close")
    /\ UNCHANGED <<z0, z1, z2, joint6, joint_goal6, sensor, feed,
                   kind, iters, frameVars, mainVars>>

\* line 217: self.close_gripper()
screw_engage_close ==
    /\ pc = "engage_close"
    /\ pc' = "engage_sleep"
    /\ gripper' = "closed"
    /\ grasp' = "pending"
    /\ events' = Append(events, "close")
    /\ UNCHANGED <<z0, z1, z2, joint6, joint_goal6, sensor, feed,
                   kind, iters, frameVars, mainVars>>

\* line 218: rospy.sleep(1)
screw_engage_sleep ==
    /\ pc = "engage_sleep"
    /\ pc' = "engage_go"
    /\ events' = Append(events, "sleep")
    /\ UNCHANGED <<z0, z1, z2, joint6, joint_goal6, gripper, sensor, feed,
                   kind, iters, grasp, frameVars, mainVars>>

\* Variant of lines 219-221 that turns by pi/4 from the angle read (the
\* "+= np.pi / 4." left in the comment of line 219).
screw_engage_go_increment ==
    /\ pc = "engage_go"
    /\ pc' = "wait_z2"
    /\ joint_goal6' = joint_goal6 + 2
    /\ \E a \in go_outcomes(joint6, joint_goal6 + 2) : joint6' = a
    /\ events' = events \o <<go_event(joint_goal6'), "stop">>
    /\ UNCHANGED <<z0, z1, z2, gripper, sensor, feed,
                   kind, iters, grasp, frameVars, mainVars>>

\* lines 219-221: joint_goal[6] = 7pi/8; go(wait=True); stop()
screw_engage_go ==
    /\ pc = "engage_go"
    /\ pc' = "wait_z2"
    /\ joint_goal6' = ForwardTarget
    /\ \E a \in go_outcomes(joint6, ForwardTarget) : joint6' = a
    /\ events' = events \o <<go_event(joint_goal6'), "stop">>
    /\ UNCHANGED <<z0, z1, z2, gripper, sensor, feed,
                   kind, iters, grasp, frameVars, mainVars>>

\* Variant of lines 223-225 whose wait gives up when nothing is published
\* and goes on with the old z2.
screw_wait_z2_timeout ==
    /\ pc = "wait_z2"
    /\ \E z \in next_samples \cup {z2} : z2' = z
    /\ feed' = IF feed = <<>> THEN feed ELSE feed_after
    /\ pc' = "test"
    /\ events' = Append(events, "sample")
    /\ UNCHANGED <<z0, z1, joint6, joint_goal6, gripper, sensor,
                   kind, iters, grasp, frameVars, mainVars>>

\* Variant of lines 223-225 that keeps the previous sample in z1.
screw_wait_z2_tracks_z1 ==
    /\ pc = "wait_z2"
    /\ \E z \in next_samples : z2' = z
    /\ z1' = z2
    /\ feed' = feed_after
    /\ pc' = "test"
    /\ events' = Append(events, "sample")
    /\ UNCHANGED <<z0, joint6, joint_goal6, gripper, sensor,
                   kind, iters, grasp, frameVars, mainVars>>

\* lines 223-225: z2 = wait_for_message('/screw_pos').point.z
screw_wait_z2 ==
    /\ pc = "wait_z2"
    /\ \E z \in next_samples : z2' = z
    /\ feed' = feed_after
    /\ pc' = "test"
    /\ events' = Append(events, "sample")
    /\ UNCHANGED <<z0, z1, joint6, joint_goal6, gripper, sensor,
                   kind, iters, grasp, frameVars, mainVars>>

\* The perception feed stops publishing.
sensor_stall ==
    /\ sensor = "live"
    /\ sensor' = "stalled"
    /\ UNCHANGED <<pc, z0, z1, z2, joint6, joint_goal6, gripper, feed,
                   events, kind, iters, grasp, frameVars, mainVars>>

\* The gripper reports the grasp goal of close_gripper() as finished.  The
\* code publishes the goal (line 186) and never reads the result.
grasp_complete ==
    /\ grasp = "pending"
    /\ grasp' = "done"
    /\ UNCHANGED <<pc, z0, z1, z2, joint6, joint_goal6, gripper, sensor, feed,
                   events, kind, iters, frameVars, mainVars>>

screw ==
    \/ screw_open_gripper
    \/ screw_pre_read
    \/ screw_pre_go
    \/ screw_wait_z0
    \/ screw_loop_enter
    \/ screw_loop_exit
    \/ screw_read_joint
    \/ screw_branch_reset
    \/ screw_branch_engage
    \/ screw_reset_open
    \/ screw_reset_go
    \/ screw_engage_close
    \/ screw_engage_sleep
    \/ screw_engage_go
    \/ screw_wait_z2

----------------------------------------------------------------------------
(* The frame construction of main(), lines 311-331 *)

(* A vector is kept exactly: [n, den, rad] stands for n / (den * sqrt(rad)),  *)
(* n a triple of integers.  den = 0 marks the NaN vector numpy yields for    *)
(* 0/0.                                                                       *)

Vec(a, b, c, d) == [n |-> <<a, b, c>>, den |-> d, rad |-> 1]
NaNVec == [n |-> <<0, 0, 0>>, den |-> 0, rad |-> 0]
IsNaN(v) == v.den = 0

Dot(a, b) == a[1] * b[1] + a[2] * b[2] + a[3] * b[3]

CrossN(a, b) == <<a[2] * b[3] - a[3] * b[2],
                  a[3] * b[1] - a[1] * b[3],
                  a[1] * b[2] - a[2] * b[1]>>

\* np.cross(u, v)
np_cross(u, v) ==
    IF IsNaN(u) \/ IsNaN(v)
    THEN NaNVec
    ELSE [n |-> CrossN(u.n, v.n), den |-> u.den * v.den, rad |-> u.rad * v.rad]

\* v /= np.linalg.norm(v): numpy divides without a check, and 0/0 is NaN
\* (a RuntimeWarning, no exception).
normalized(v) ==
    IF IsNaN(v) \/ Dot(v.n, v.n) = 0
    THEN NaNVec
    ELSE [n |-> v.n, den |-> 1, rad |-> Dot(v.n, v.n)]

\* tft.quaternion_matrix(q)[:-1, 2]: the third column of the rotation matrix of
\* q = (x, y, z, w).  The library scales q by sqrt(2 / dot(q, q)) itself and
\* returns the identity for a quaternion of (near) zero norm.
quaternion_z_axis(q) ==
    LET x == q[1]
        y == q[2]
        z == q[3]
        w == q[4]
        nq == x * x + y * y + z * z + w * w
    IN  IF nq = 0
        THEN Vec(0, 0, 1, 1)
        ELSE Vec(2 * (x * z + y * w), 2 * (y * z - x * w),
                 nq - 2 * (x * x + y * y), nq)

TolNum == 1001
TolDen == 100000000

\* np.isclose(num / den, 1) with numpy's defaults rtol = 1e-5, atol = 1e-8:
\* |a - 1| <= atol + rtol * |1| = TolNum / TolDen.
isclose_1(num, den) == Abs(num - den) <= (TolNum * den) \div TolDen

OffsetX_General == -1027
OffsetZ_Degenerate == 700

Up == Vec(0, 0, 1, 1)

\* lines 311-313
frame_z_axis ==
    /\ pc = "frame_quat"
    /\ pc' = "frame_branch"
    /\ z_axis' = quaternion_z_axis(quat)
    /\ sensed' = z_axis'
    /\ UNCHANGED <<quat, x_axis, y_axis, pos_offset_fixture_x,
                   pos_offset_fixture_z, q2, q_fixture, branch, screwVars, mainVars>>

\* Variant of lines 315-322 that keeps the sensed z_axis (line 317 left out).
frame_degenerate_keeps_z ==
    /\ pc = "frame_branch"
    /\ isclose_1(z_axis.n[3], z_axis.den)
    /\ pc' = "frame_built"
    /\ y_axis' = Vec(0, 0, 1, 1)
    /\ x_axis' = Vec(0, 1, 0, 1)
    /\ q2' = "euler(pi, 0, -tau/8)"
    /\ pos_offset_fixture_x' = 0
    /\ pos_offset_fixture_z' = OffsetZ_Degenerate
    /\ q_fixture' = "euler(pi, 0, tau/8)"
    /\ branch' = "degenerate"
    /\ UNCHANGED <<quat, sensed, z_axis, screwVars, mainVars>>

\* lines 315-322
frame_degenerate ==
    /\ pc = "frame_branch"
    /\ isclose_1(z_axis.n[3], z_axis.den)
    /\ pc' = "frame_built"
    /\ y_axis' = Vec(0, 0, 1, 1)
    /\ z_axis' = Vec(1, 0, 0, 1)
    /\ x_axis' = Vec(0, 1, 0, 1)
    /\ q2' = "euler(pi, 0, -tau/8)"
    /\ pos_offset_fixture_x' = 0
    /\ pos_offset_fixture_z' = OffsetZ_Degenerate
    /\ q_fixture' = "euler(pi, 0, tau/8)"
    /\ branch' = "degenerate"
    /\ UNCHANGED <<quat, sensed, screwVars, mainVars>>

\* lines 323-331
frame_general ==
    /\ pc = "frame_branch"
    /\ ~isclose_1(z_axis.n[3], z_axis.den)
    /\ pc' = "frame_built"
    /\ x_axis' = normalized(np_cross(z_axis, Up))
    /\ y_axis' = normalized(np_cross(z_axis, x_axis'))
    /\ q2' = "euler(0, 0, -pi/4)"
    /\ pos_offset_fixture_x' = OffsetX_General
    /\ pos_offset_fixture_z' = 0
    /\ q_fixture' = "euler(-tau/4, -tau/8, -tau/4)"
    /\ branch' = "general"
    /\ UNCHANGED <<quat, sensed, z_axis, screwVars, mainVars>>

frame_builder == frame_z_axis \/ frame_degenerate \/ frame_general

----------------------------------------------------------------------------
(* main(), lines 283-460.  Positions are in units of 1e-7 m. *)

NutHover == 1460251
FixtureZ == 5700000
HeadHover == 1500000
ScrewHover == 1887751
Lift == 2000000

\* The drops of lines 344, 373, 400 and 423.
Drop == <<500000, 700000, 500000, 740000>>

\* The offsets of the frame construction are in 0.1 mm.
OffsetScale == 1000

\* Points the position topics may publish, and orientations of the nut:
\* upright, lying on its side, upside down.
NutPoints == {[x |-> 4000000, y |-> 0, z |-> 200000],
              [x |-> 4500000, y |-> -1000000, z |-> 250000]}
FixturePoints == {[x |-> 5000000, y |-> 2000000, z |-> 0],
                  [x |-> 5500000, y |-> 2500000, z |-> 100000]}
HeadPoints == {[x |-> 3000000, y |-> -2000000, z |-> 300000],
               [x |-> 3500000, y |-> -2500000, z |-> 350000]}
MainQuats == {<<0, 0, 0, 1>>, <<1, 0, 0, 1>>, <<1, 0, 0, 0>>}

\* Before main() has got anywhere: no pose, no waypoint, no plan.
NoPoint == [x |-> 0, y |-> 0, z |-> 0]
NoPose == [x |-> 0, y |-> 0, z |-> 0, orientation |-> <<"unset">>]

\* The program points of the five motions.
LowerPc == <<"m_lower1", "m_lower2", "m_lower3", "m_lower4">>
PlanPc == <<"plan1", "plan2", "plan3", "plan4", "plan5">>
DisplayPc == <<"display1", "display2", "display3", "display4", "display5">>
ExecutePc == <<"execute1", "execute2", "execute3", "execute4", "execute5">>
AfterExecute == <<"m_close1", "m_open2", "m_close2", "m_screw", "returned">>

Ev(e, k) == [ev |-> e, k |-> k]

\* Variant of copy.deepcopy(pose_goal): the list keeps the working pose itself.
deepcopy_alias(p) == [ref |-> TRUE, pose |-> p]

\* copy.deepcopy(pose_goal): the list gets a pose of its own.
deepcopy(p) == [ref |-> FALSE, pose |-> p]

\* The pose a list entry stands for when the working pose is pg.
resolve(w, pg) == IF w.ref THEN pg ELSE w.pose

\* Variant of the handlers of lines 457-460 without the second one.
main_except_ros_only(e) ==
    IF e = "ROSInterruptException" THEN "returned" ELSE "crashed"

\* lines 457-460: both exceptions are caught and main() returns.
main_except(e) ==
    IF e \in {"ROSInterruptException", "KeyboardInterrupt"}
    THEN "returned" ELSE "crashed"

screwLocals == <<z0, z1, z2, joint_goal6, sensor, feed, events, kind, iters>>
poseVars == <<nut_pos, fixture_pos, screw_head_pos, pose_goal, waypoints,
              plan, fraction>>

\* lines 285-289
main_init ==
    /\ pc = "m_init"
    /\ pc' = "m_ready"
    /\ UNCHANGED <<screwVars, frameVars, mainVars>>

\* lines 291-294: go to the named target 'ready'
main_ready ==
    /\ pc = "m_ready"
    /\ pc' = "m_open1"
    /\ joint6' \in Angles
    /\ mlog' = Append(mlog, Ev("ready", 0))
    /\ UNCHANGED <<screwLocals, gripper, grasp, frameVars, poseVars, motion,
                   exc, abortedAt>>

\* lines 296-298 and line 382: assemblyDemo.open_gripper()
main_open_gripper ==
    /\ pc \in {"m_open1", "m_open2"}
    /\ pc' = (IF pc = "m_open1" THEN "m_wait_nut" ELSE "m_wait_head")
    /\ gripper' = "open"
    /\ grasp' = "idle"
    /\ mlog' = Append(mlog, Ev("open", 0))
    /\ UNCHANGED <<screwLocals, joint6, frameVars, poseVars, motion,
                   exc, abortedAt>>

\* lines 353-355 and 407-409: assemblyDemo.close_gripper()
main_close_gripper ==
    /\ pc \in {"m_close1", "m_close2"}
    /\ pc' = (IF pc = "m_close1" THEN "m_sleep1" ELSE "m_sleep2")
    /\ gripper' = "closed"
    /\ grasp' = "pending"
    /\ mlog' = Append(mlog, Ev("close", 0))
    /\ UNCHANGED <<screwLocals, joint6, frameVars, poseVars, motion,
                   exc, abortedAt>>

\* lines 356 and 410: rospy.sleep(2)
main_sleep ==
    /\ pc \in {"m_sleep1", "m_sleep2"}
    /\ pc' = (IF pc = "m_sleep1" THEN "m_wait_fixture" ELSE "m_wait_nut2")
    /\ mlog' = Append(mlog, Ev("sleep", 0))
    /\ UNCHANGED <<screwVars, frameVars, poseVars, motion, exc, abortedAt>>

\* lines 300-309: waypoints = []; the nut's position and orientation are
\* read; pose_goal = Pose()
main_wait_nut ==
    /\ pc = "m_wait_nut"
    /\ pc' = "frame_quat"
    /\ waypoints' = <<>>
    /\ \E p \in NutPoints : nut_pos' = p
    /\ \E q \in MainQuats : quat' = q
    /\ pose_goal' = NoPose
    /\ UNCHANGED <<screwVars, sensed, z_axis, x_axis, y_axis,
                   pos_offset_fixture_x, pos_offset_fixture_z, q2, q_fixture,
                   branch, fixture_pos, screw_head_pos, plan, fraction,
                   motion, mlog, exc, abortedAt>>

\* lines 333-343: the orientation from the frame; pose_goal.position is made
\* the very point of the nut message, which line 341 therefore raises too.
main_pose1 ==
    /\ pc = "frame_built"
    /\ pc' = LowerPc[1]
    /\ pose_goal' = [x |-> nut_pos.x, y |-> nut_pos.y,
                     z |-> nut_pos.z + NutHover,
                     orientation |-> <<"q2*frame", q2, branch>>]
    /\ nut_pos' = [nut_pos EXCEPT !.z = @ + NutHover]
    /\ waypoints' = Append(waypoints, deepcopy(pose_goal'))
    /\ mlog' = Append(mlog, Ev("pose", 1))
    /\ UNCHANGED <<screwVars, frameVars, fixture_pos, screw_head_pos, plan,
                   fraction, motion, exc, abortedAt>>

\* lines 358-372: waypoints.clear(); the fixture's position is read; the
\* position object is still the nut message's point.
main_wait_fixture ==
    /\ pc = "m_wait_fixture"
    /\ pc' = "m_pose2"
    /\ waypoints' = <<>>
    /\ \E p \in FixturePoints : fixture_pos' = p
    /\ UNCHANGED <<screwVars, frameVars, nut_pos, screw_head_pos, pose_goal,
                   plan, fraction, motion, mlog, exc, abortedAt>>

main_pose2 ==
    /\ pc = "m_pose2"
    /\ pc' = LowerPc[2]
    /\ pose_goal' =
         [x |-> fixture_pos.x + OffsetScale * pos_offset_fixture_x,
          y |-> fixture_pos.y,
          z |-> FixtureZ + OffsetScale * pos_offset_fixture_z,
          orientation |-> <<q_fixture>>]
    /\ nut_pos' = [x |-> pose_goal'.x, y |-> pose_goal'.y, z |-> pose_goal'.z]
    /\ waypoints' = Append(waypoints, deepcopy(pose_goal'))
    /\ mlog' = Append(mlog, Ev("pose", 2))
    /\ UNCHANGED <<screwVars, frameVars, fixture_pos, screw_head_pos, plan,
                   fraction, motion, exc, abortedAt>>

\* lines 384-399: waypoints = []; the screw head's position is read;
\* pose_goal = Pose(), a new object
main_wait_head ==
    /\ pc = "m_wait_head"
    /\ pc' = "m_pose3"
    /\ waypoints' = <<>>
    /\ \E p \in HeadPoints : screw_head_pos' = p
    /\ UNCHANGED <<screwVars, frameVars, nut_pos, fixture_pos, pose_goal,
                   plan, fraction, motion, mlog, exc, abortedAt>>

main_pose3 ==
    /\ pc = "m_pose3"
    /\ pc' = LowerPc[3]
    /\ pose_goal' = [x |-> screw_head_pos.x, y |-> screw_head_pos.y,
                     z |-> screw_head_pos.z + HeadHover,
                     orientation |-> <<"euler(pi, 0, -pi/4)">>]
    /\ waypoints' = Append(waypoints, deepcopy(pose_goal'))
    /\ mlog' = Append(mlog, Ev("pose", 3))
    /\ UNCHANGED <<screwVars, frameVars, nut_pos, fixture_pos, screw_head_pos,
                   plan, fraction, motion, exc, abortedAt>>

\* lines 412-422: waypoints.clear(); the nut's position is read again
main_wait_nut2 ==
    /\ pc = "m_wait_nut2"
    /\ pc' = "m_pose4"
    /\ waypoints' = <<>>
    /\ \E p \in NutPoints : nut_pos' = p
    /\ UNCHANGED <<screwVars, frameVars, fixture_pos, screw_head_pos,
                   pose_goal, plan, fraction, motion, mlog, exc, abortedAt>>

main_pose4 ==
    /\ pc = "m_pose4"
    /\ pc' = LowerPc[4]
    /\ pose_goal' = [x |-> nut_pos.x, y |-> nut_pos.y,
                     z |-> nut_pos.z + ScrewHover,
                     orientation |-> <<"euler(pi, 0, -pi/4)">>]
    /\ waypoints' = Append(waypoints, deepcopy(pose_goal'))
    /\ mlog' = Append(mlog, Ev("pose", 4))
    /\ UNCHANGED <<screwVars, frameVars, nut_pos, fixture_pos, screw_head_pos,
                   plan, fraction, motion, exc, abortedAt>>

\* lines 344-346, 373-375, 400-402, 423-425: the working pose is lowered and
\* appended again
main_lower ==
    \E k \in 1..4 :
        /\ pc = LowerPc[k]
        /\ pc' = PlanPc[k]
        /\ pose_goal' = [pose_goal EXCEPT !.z = @ - Drop[k]]
        /\ nut_pos' = (IF k \in {1, 2}
                       THEN [nut_pos EXCEPT !.z = @ - Drop[k]]
                       ELSE nut_pos)
        /\ waypoints' = Append(waypoints, deepcopy(pose_goal'))
        /\ mlog' = Append(mlog, Ev("lower", k))
        /\ UNCHANGED <<screwVars, frameVars, fixture_pos, screw_head_pos,
                       plan, fraction, motion, exc, abortedAt>>

\* lines 347, 376, 403, 426, 448 with 227-241: the planner is given the list
\* and returns a plan and the fraction of the path it covers
main_plan ==
    \E k \in 1..5 :
        /\ pc = PlanPc[k]
        /\ pc' = DisplayPc[k]
        /\ plan' = [i \in 1..Len(waypoints) |-> resolve(waypoints[i], pose_goal)]
        /\ \E f \in {"partial", "full"} : fraction' = f
        /\ mlog' = Append(mlog, Ev("plan", k))
        /\ UNCHANGED <<screwVars, frameVars, nut_pos, fixture_pos,
                       screw_head_pos, pose_goal, waypoints, motion,
                       exc, abortedAt>>

\* lines 348, 377, 404, 427, 449
main_display ==
    \E k \in 1..5 :
        /\ pc = DisplayPc[k]
        /\ pc' = ExecutePc[k]
        /\ mlog' = Append(mlog, Ev("display", k))
        /\ UNCHANGED <<screwVars, frameVars, poseVars, motion, exc, abortedAt>>

\* lines 350-352, 379-381, 406, 429, 451: the plan is executed whatever the
\* fraction; the arm's last joint ends wherever the path takes it
main_execute ==
    \E k \in 1..5 :
        /\ pc = ExecutePc[k]
        /\ pc' = AfterExecute[k]
        /\ joint6' \in Angles
        /\ mlog' = Append(mlog, Ev("execute", k))
        /\ UNCHANGED <<screwLocals, gripper, grasp, frameVars, poseVars,
                       motion, exc, abortedAt>>

\* Variant of lines 438-441 with the open_gripper() of line 430 in force.
main_call_screw_opens ==
    /\ pc = "m_screw"
    /\ pc' = "screw"
    /\ gripper' = "open"
    /\ grasp' = "idle"
    /\ mlog' = Append(Append(mlog, Ev("open", 0)), Ev("screw", 0))
    /\ UNCHANGED <<screwLocals, joint6, frameVars, poseVars, motion,
                   exc, abortedAt>>

\* lines 438-441: assemblyDemo.screw() is called
main_call_screw ==
    /\ pc = "m_screw"
    /\ pc' = "screw"
    /\ mlog' = Append(mlog, Ev("screw", 0))
    /\ UNCHANGED <<screwVars, frameVars, poseVars, motion, exc, abortedAt>>

\* Variant of lines 443-447 that opens the gripper before lifting.
main_lift_opens ==
    /\ pc = "done"
    /\ pc' = PlanPc[5]
    /\ gripper' = "open"
    /\ grasp' = "idle"
    /\ pose_goal' = [pose_goal EXCEPT !.z = @ + Lift]
    /\ waypoints' = <<deepcopy(pose_goal')>>
    /\ mlog' = Append(mlog, Ev("pose", 5))
    /\ UNCHANGED <<screwLocals, joint6, frameVars, nut_pos, fixture_pos,
                   screw_head_pos, plan, fraction, motion, exc, abortedAt>>

\* lines 443-447: screw() has returned; waypoints.clear(); the working pose
\* is raised by 0.20 and appended
main_lift ==
    /\ pc = "done"
    /\ pc' = PlanPc[5]
    /\ pose_goal' = [pose_goal EXCEPT !.z = @ + Lift]
    /\ waypoints' = <<deepcopy(pose_goal')>>
    /\ mlog' = Append(mlog, Ev("pose", 5))
    /\ UNCHANGED <<screwVars, frameVars, nut_pos, fixture_pos,
                   screw_head_pos, plan, fraction, motion, exc, abortedAt>>

\* The calls of rospy that raise ROSInterruptException on shutdown:
\* rospy.sleep and rospy.wait_for_message.
RosPoints == {"m_sleep1", "m_sleep2", "m_wait_nut", "m_wait_fixture",
              "m_wait_head", "m_wait_nut2", "wait_z0", "engage_sleep",
              "wait_z2"}

\* lines 284 and 457-460: an interrupt raised where the thread stands leaves
\* the try block; nothing is run on the way out.
main_abort ==
    /\ pc \notin {"returned", "crashed"}
    /\ \E e \in {"ROSInterruptException", "KeyboardInterrupt"} :
           /\ e = "ROSInterruptException" => pc \in RosPoints
           /\ exc' = e
           /\ pc' = main_except(e)
    /\ abortedAt' = pc
    /\ UNCHANGED <<screwVars, frameVars, poseVars, motion, mlog>>

main_sequence ==
    \/ main_init \/ main_ready \/ main_open_gripper \/ main_close_gripper
    \/ main_sleep \/ main_wait_nut \/ main_pose1 \/ main_wait_fixture
    \/ main_pose2 \/ main_wait_head \/ main_pose3 \/ main_wait_nut2
    \/ main_pose4 \/ main_lower \/ main_plan \/ main_display \/ main_execute
    \/ main_call_screw \/ main_lift

----------------------------------------------------------------------------
(* Specifications *)

\* Before main() reaches line 311 nothing of the frame is set.
FrameUnset ==
    /\ sensed = NaNVec
    /\ z_axis = NaNVec /\ x_axis = NaNVec /\ y_axis = NaNVec
    /\ pos_offset_fixture_x = 0 /\ pos_offset_fixture_z = 0
    /\ q2 = "unset" /\ q_fixture = "unset"
    /\ branch = "none"

MainUnset ==
    /\ nut_pos = NoPoint /\ fixture_pos = NoPoint /\ screw_head_pos = NoPoint
    /\ pose_goal = NoPose
    /\ waypoints = <<>>
    /\ plan = <<>>
    /\ fraction = "none"
    /\ mlog = <<>>
    /\ exc = "none"
    /\ abortedAt = "none"

\* Before screw() runs its locals are unset (0 stands for unset).
ScrewUnset ==
    /\ z0 = 0 /\ z1 = 0 /\ z2 = 0
    /\ joint_goal6 = 0
    /\ events = <<>>
    /\ kind = "none"
    /\ iters = 0

\* The state in which main() calls screw() (line 441): the joint anywhere in
\* its range, the gripper as the last command left it, no sample read yet.
ScrewEntry ==
    /\ pc = "screw"
    /\ ScrewUnset
    /\ joint6 \in Angles
    /\ gripper \in {"open", "closed"}
    /\ grasp \in {"idle", "pending", "done"}
    /\ quat = <<0, 0, 0, 1>>
    /\ FrameUnset
    /\ MainUnset

Init ==
    /\ ScrewEntry
    /\ sensor = "live"
    /\ feed = <<>>
    /\ motion = "any"

Next == screw \/ sensor_stall \/ grasp_complete

\* screw() with a live /screw_pos feed that may stop at any time.
Spec == Init /\ [][Next]_vars

\* screw() fed the progress sequence of the spec's section 8.
Script == <<100, 100, 98, 96, 93>>

ScriptInit ==
    /\ ScrewEntry
    /\ sensor = "script"
    /\ feed = Script
    /\ motion = "any"

ScriptSpec == ScriptInit /\ [][screw]_vars

\* screw() with a feed that never stops and blocking calls that always
\* return: the thread takes its next step whenever it has one.
LiveSpec == Init /\ [][screw]_vars /\ WF_vars(screw)

\* screw() when every go() reaches the angle it was given.
IdealInit ==
    /\ ScrewEntry
    /\ sensor = "live"
    /\ feed = <<>>
    /\ motion = "ideal"

IdealSpec == IdealInit /\ [][Next]_vars

\* main() from its first line, with the /screw_pos feed of section 8.
MainInit ==
    /\ pc = "m_init"
    /\ ScrewUnset
    /\ joint6 \in Angles
    /\ gripper \in {"open", "closed"}
    /\ grasp = "idle"
    /\ quat = <<0, 0, 0, 1>>
    /\ FrameUnset
    /\ MainUnset
    /\ sensor = "script"
    /\ feed = Script
    /\ motion = "any"

MainNext ==
    main_sequence \/ frame_builder \/ screw \/ grasp_complete \/ main_abort

MainSpec == MainInit /\ [][MainNext]_vars

\* The frame construction applied to a sensed quaternion.
QMax == 1
QSmall == (-QMax)..QMax

\* Quaternions whose z axis is within numpy's tolerance of up without being up.
NearUpQuats == {<<1, 0, 0, 500>>, <<0, 1, 0, 500>>, <<1, 1, 0, 1000>>,
                <<-1, 0, 3, 600>>}

\* Quaternions whose z axis is a few degrees off up, outside the tolerance.
TiltedQuats == {<<1, 0, 0, 20>>, <<0, 1, 2, 20>>}

Quats == (QSmall \X QSmall \X QSmall \X QSmall) \cup NearUpQuats
             \cup TiltedQuats

FrameInit ==
    /\ pc = "frame_quat"
    /\ quat \in Quats
    /\ FrameUnset
    /\ ScrewUnset
    /\ joint6 = 0
    /\ gripper = "open"
    /\ grasp = "idle"
    /\ sensor = "live"
    /\ feed = <<>>
    /\ motion = "any"
    /\ MainUnset

FrameSpec == FrameInit /\ [][frame_builder]_vars

----------------------------------------------------------------------------
(* Properties *)

IsPrefix(s, t) == Len(s) <= Len(t) /\ \A i \in 1..Len(s) : s[i] = t[i]

Occ(s, e) == Cardinality({i \in 1..Len(s) : s[i] = e})

EngageEvents == <<"read", "close", "sleep", "go_fwd", "stop", "sample">>
ResetEvents == <<"read", "open", "go_back", "stop", "sample">>

\* The thread is in the loop body past the branch of line 210, or at a loop
\* test that follows an iteration.
AfterBranch ==
    \/ pc \in {"reset_open", "reset_go", "engage_close", "engage_sleep",
               "engage_go", "wait_z2"}
    \/ pc \in {"test", "done"} /\ iters > 0

\* C1: screw() is past its loop only with z0 - z2 >= 0.006, and a loop test
\* that finds z0 - z2 >= 0.006 is followed by the return alone: no gripper or
\* joint command is issued from then on.
C1_DoneOnlyAtThreshold ==
    /\ [](pc = "done" => z0 - z2 >= Threshold)
    /\ [][(pc = "test" /\ z0 - z2 >= Threshold)
            => /\ pc' \in {"test", "done"}
               /\ UNCHANGED <<gripper, joint6, joint_goal6, events>>]_vars
    /\ [][pc = "done"
            => UNCHANGED <<pc, gripper, joint6, joint_goal6, events>>]_vars

\* The loop has ended on a sample exactly 0.006 below z0, after at least two
\* iterations.
C1_Witness == pc = "done" /\ z0 - z2 = Threshold /\ iters >= 2

\* C2: fed 0.100, then 0.100, 0.098, 0.096, 0.093, the loop body is entered
\* exactly 4 times and screw() then returns; it does not return earlier.
C2_ScriptedRun ==
    /\ pc = "done" => (feed = <<>> /\ iters = 4 /\ z0 = 100 /\ z2 = 93)
    /\ (feed = <<>> /\ pc # "test") => pc = "done"

C2_Witness == pc = "done" /\ iters = 4 /\ feed = <<>>

\* C3 (as claimed): an iteration that read an angle >= pi/2 is a single Reset
\* iteration, the next one being Engage, and the sample that ends a Reset
\* iteration leaves z0 - z2 as it was.
C3_ResetKeepsProgress ==
    [][/\ (pc = "wait_z2" /\ kind = "reset") => z2' = z2
       /\ (pc = "branch" /\ kind = "reset" /\ pc' # pc) => kind' = "engage"]_vars

\* C4: an iteration reads the angle once, takes Reset exactly when the angle
\* read is >= pi/2 and Engage otherwise, never both, and reads one height
\* sample, last, before the loop test.
C4_OneBranchOneSample ==
    /\ pc \in {"reset_open", "engage_close"}
         => /\ events = <<"read">>
            /\ joint_goal6 = joint6
            /\ (pc = "reset_open") = (joint_goal6 >= ForwardLimit)
            /\ (kind = "reset") = (pc = "reset_open")
    /\ AfterBranch
         => /\ kind \in {"reset", "engage"}
            /\ Occ(events, "read") = 1 /\ events[1] = "read"
            /\ Occ(events, "open") + Occ(events, "close") <= 1
            /\ Occ(events, "close") + Occ(events, "go_back") <= 1
            /\ Occ(events, "open") + Occ(events, "go_fwd") <= 1
    /\ (pc \in {"wait_z2", "test", "done"} /\ iters > 0)
         => /\ Occ(events, "open") + Occ(events, "close") = 1
            /\ Occ(events, "go_back") + Occ(events, "go_fwd") = 1
            /\ (Occ(events, "open") = 1) = (kind = "reset")
            /\ Occ(events, "sample") = (IF pc = "wait_z2" THEN 0 ELSE 1)
            /\ pc # "wait_z2" => events[Len(events)] = "sample"

\* A Reset iteration is starting on an angle of exactly pi/2, after an
\* earlier iteration.
C4_Witness ==
    pc = "reset_open" /\ joint_goal6 = ForwardLimit /\ iters >= 2

\* C5: what an iteration has done so far is an initial part of close, settle
\* delay, go to 7pi/8 (Engage) or of open, go to -7pi/8 (Reset); so the
\* rotation is never commanded before the gripper command of the iteration.
C5_ActionOrder ==
    AfterBranch =>
        /\ IsPrefix(events, IF kind = "reset" THEN ResetEvents ELSE EngageEvents)
        /\ pc = "reset_go" => events = <<"read", "open">>
        /\ pc = "engage_sleep" => events = <<"read", "close">>
        /\ pc = "engage_go" => events = <<"read", "close", "sleep">>
        /\ pc = "wait_z2" =>
             /\ Len(events) = (IF kind = "reset" THEN 4 ELSE 5)
             /\ joint_goal6 = (IF kind = "reset" THEN StartAngle ELSE ForwardTarget)
             /\ gripper = (IF kind = "reset" THEN "open" ELSE "closed")

\* An Engage iteration has issued its three actions, after a Reset iteration
\* did its two.
C5_Witness ==
    /\ pc = "wait_z2" /\ kind = "engage" /\ iters >= 2
    /\ events = <<"read", "close", "sleep", "go_fwd", "stop">>

\* C6: with a feed that keeps delivering and calls that return, screw() ends
\* only on an end-of-iteration sample with z0 - z2 >= 0.006, does end once
\* such a sample is read, and until then comes to the sample wait of a further
\* iteration again and again, whatever the number of iterations so far.
C6_NoIterationBound ==
    /\ [](pc = "done" => /\ iters >= 1
                         /\ events[Len(events)] = "sample"
                         /\ z0 - z2 >= Threshold)
    /\ ((pc = "test" /\ z0 - z2 >= Threshold) ~> pc = "done")
    /\ []<>(pc = "done" \/ pc = "wait_z2")
    /\ []((pc = "test" /\ z0 - z2 < Threshold) => <>(pc = "wait_z2"))

\* The loop is in a further iteration after MaxIter of them, still short of
\* the threshold.
C6_Witness == iters = MaxIter /\ pc = "wait_z2" /\ z0 - z2 < Threshold

\* C7: with the feed stopped, screw() at a sample wait has no step to take:
\* it neither returns nor issues a command.
C7_StallBlocks ==
    (sensor = "stalled" /\ pc \in {"wait_z0", "wait_z2"}) => ~ENABLED screw

\* The feed stopped while an Engage iteration waits with the gripper closed.
C7_Witness ==
    sensor = "stalled" /\ pc = "wait_z2" /\ kind = "engage" /\ gripper = "closed"

\* The frame construction has run to the end of line 331.
Built == pc = "frame_built"

\* num / den is within 1.001e-5 of 1 (1e8 = 1001 * 99900 + 100).
WithinTolOfOne(num, den) ==
    LET d == Abs(num - den) IN 100 * d <= 1001 * (den - 99900 * d)

\* C8: the branch taken is the degenerate one exactly when the z component of
\* the sensed axis is within tolerance of 1; that branch yields the fixed basis
\* z=[1,0,0], x=[0,1,0], y=[0,0,1] and the offsets x = -0.0, z = 0.07 whatever
\* the other components are, and the general branch the offsets -0.1027 and 0.
C8_BranchByZComponent ==
    Built =>
        IF WithinTolOfOne(sensed.n[3], sensed.den)
        THEN /\ branch = "degenerate"
             /\ z_axis = Vec(1, 0, 0, 1)
             /\ x_axis = Vec(0, 1, 0, 1)
             /\ y_axis = Vec(0, 0, 1, 1)
             /\ pos_offset_fixture_x = 0
             /\ pos_offset_fixture_z = 700
        ELSE /\ branch = "general"
             /\ z_axis = sensed
             /\ pos_offset_fixture_x = -1027
             /\ pos_offset_fixture_z = 0

\* The degenerate branch was taken for an axis that is not exactly up.
C8_Witness ==
    /\ Built /\ branch = "degenerate"
    /\ sensed.n[3] # sensed.den
    /\ sensed.n[2] # 0

\* C9 (as claimed): the general branch never completes for an axis whose cross
\* product with up is zero: nothing is divided by a zero norm, so no NaN
\* vector comes out of it.
C9_ParallelAxisReported ==
    (Built /\ branch = "general")
        => /\ Dot(CrossN(sensed.n, Up.n), CrossN(sensed.n, Up.n)) # 0
           /\ ~IsNaN(x_axis)
           /\ ~IsNaN(y_axis)

IsUnit(v) == ~IsNaN(v) /\ Dot(v.n, v.n) = v.den * v.den * v.rad
Orthogonal(u, v) == ~IsNaN(u) /\ ~IsNaN(v) /\ Dot(u.n, v.n) = 0

\* C10 (as claimed): the basis built is orthonormal for every sensed axis.
C10_Orthonormal ==
    Built =>
        /\ IsUnit(z_axis) /\ IsUnit(x_axis) /\ IsUnit(y_axis)
        /\ Orthogonal(z_axis, x_axis)
        /\ Orthogonal(z_axis, y_axis)
        /\ Orthogonal(x_axis, y_axis)

\* What does hold: the basis is orthonormal unless the general branch was
\* taken for an axis opposite to up.
FrameOrthonormalUnlessAntiparallel ==
    (Built /\ ~(branch = "general" /\ sensed.n[1] = 0 /\ sensed.n[2] = 0))
        => C10_Orthonormal

\* The thread is at or past the first loop test of screw().
InLoop ==
    pc \in {"test", "read_joint", "branch", "reset_open", "reset_go",
            "engage_close", "engage_sleep", "engage_go", "wait_z2", "done"}

\* C14 (as claimed): the rotation of an Engage iteration is issued only once
\* the grasp goal of the close command has been reported finished, and a
\* gripper command is issued only with the joint at rest where it was read.
C14_OutcomeBeforeNext ==
    [][/\ (pc = "engage_go" /\ pc' = "wait_z2") => grasp = "done"
       /\ (pc \in {"reset_open", "engage_close"} /\ pc' # pc)
            => joint6 = joint_goal6]_vars

\* C15: in the loop z0 and z1 never change, z2 changes only by the one sample
\* read at the end of an iteration, and the loop test decides by z0 - z2 alone.
C15_OnlyZ2Changes ==
    /\ [](InLoop => z1 = z0)
    /\ [][InLoop => (z0' = z0 /\ z1' = z1)]_vars
    /\ [][(InLoop /\ z2' # z2) => (pc = "wait_z2" /\ pc' = "test")]_vars
    /\ [][(pc = "wait_z2" /\ pc' = "test") => Occ(events', "sample") = 1]_vars
    /\ [][(pc = "test" /\ pc' # pc)
            => ((pc' = "done") = (z0 - z2 >= Threshold))]_vars

\* After two iterations z2 has moved away from z0 and z1 has not.
C15_Witness == pc = "test" /\ iters >= 2 /\ z2 # z0 /\ z1 = z0

\* C16: every go() of screw() is given 7pi/8 with the gripper last commanded
\* closed or -7pi/8 with the gripper last commanded open.
C16_GoMatchesGripper ==
    [][(pc \in {"pre_go", "reset_go", "engage_go"} /\ pc' # pc)
         => /\ joint_goal6' \in {ForwardTarget, StartAngle}
            /\ joint_goal6' = ForwardTarget => gripper = "closed"
            /\ joint_goal6' = StartAngle => gripper = "open"]_vars

\* A Reset iteration has unwound the joint with the gripper open, after an
\* Engage iteration turned it with the gripper closed.
C16_Witness ==
    /\ pc = "wait_z2" /\ kind = "reset" /\ iters >= 2
    /\ gripper = "open" /\ joint_goal6 = StartAngle

\* C17: when every go() reaches its angle, the loop body runs at least once,
\* the first iteration is Engage, and each iteration takes the branch the
\* previous one did not.
C17_Alternation ==
    /\ [](pc = "done" => iters >= 1)
    /\ []((iters = 1 /\ AfterBranch) => kind = "engage")
    /\ [][(pc = "branch" /\ pc' # pc)
            => kind' = (IF kind = "engage" THEN "reset" ELSE "engage")]_vars

\* The third iteration is Engage again, after Engage and Reset.
C17_Witness ==
    pc = "wait_z2" /\ iters = 3 /\ kind = "engage" /\ motion = "ideal"

Last(s) == s[Len(s)]

\* C11 (as claimed): a plan is executed only when the planner reported the
\* whole path covered.
C11_PartialPlanNotExecuted ==
    (mlog # <<>> /\ Last(mlog).ev = "execute") => fraction = "full"

\* C12: after an operator abort main() has returned, and nothing is
\* commanded any more.
C12_AbortReturns ==
    /\ [](exc # "none" => pc = "returned")
    /\ [][exc # "none"
            => UNCHANGED <<pc, gripper, joint6, joint_goal6, events, mlog,
                           plan, waypoints, pose_goal>>]_vars

\* A keyboard interrupt inside the screw loop, while a sample is awaited.
C12_Witness ==
    pc = "returned" /\ exc = "KeyboardInterrupt" /\ abortedAt = "wait_z2"

\* The suspension points of the screw loop: the settle delay, the blocking
\* joint motions, the wait for a sample.
ScrewLoopPoints == {"engage_sleep", "engage_go", "reset_go", "wait_z2"}

\* C13 (as claimed): after an abort inside the screw loop the gripper's last
\* command is open.
C13_AbortLeavesGripperOpen ==
    (exc # "none" /\ abortedAt \in ScrewLoopPoints) => gripper = "open"

\* From the return of screw() to the end of the lift.
AfterScrew == pc \in {"done", PlanPc[5], DisplayPc[5], ExecutePc[5]}

\* C18: when screw() has returned the gripper is closed after a final Engage
\* and open after a final Reset, and the lift is planned, displayed and
\* executed with no gripper command.
C18_GripperAtReturn ==
    /\ [](AfterScrew => gripper = (IF kind = "engage" THEN "closed" ELSE "open"))
    /\ [][AfterScrew => (gripper' = gripper /\ grasp' \in {grasp, "done"})]_vars

\* The lift has been executed after a final Reset, the gripper still open.
C18_Witness ==
    /\ pc = "returned" /\ exc = "none" /\ Last(mlog) = Ev("execute", 5)
    /\ kind = "reset" /\ gripper = "open"

Motion(k) == <<Ev("plan", k), Ev("display", k), Ev("execute", k)>>
Approach(k) == <<Ev("pose", k), Ev("lower", k)>> \o Motion(k)

\* What main() does, in order, when nothing interrupts it.
MainOrder ==
    <<Ev("ready", 0), Ev("open", 0)>> \o Approach(1)
      \o <<Ev("close", 0), Ev("sleep", 0)>> \o Approach(2)
      \o <<Ev("open", 0)>> \o Approach(3)
      \o <<Ev("close", 0), Ev("sleep", 0)>> \o Approach(4)
      \o <<Ev("screw", 0), Ev("pose", 5)>> \o Motion(5)

\* C19: the poses of a motion are made before it is planned, each motion is
\* planned, displayed and executed in that order, and the gripper commands
\* fall where the sequence of main() puts them.
C19_MainOrder ==
    /\ IsPrefix(mlog, MainOrder)
    /\ \A k \in 1..5 : pc = DisplayPc[k] =>
          /\ Len(plan) = Len(waypoints)
          /\ \A i \in 1..Len(plan) : plan[i] = resolve(waypoints[i], pose_goal)

\* The whole sequence has run.
C19_Witness == pc = "returned" /\ exc = "none" /\ mlog = MainOrder

\* C20: a submitted approach is a hover pose and the same pose lowered by the
\* drop of its motion, and a pose once appended stays as it was appended.
C20_HoverThenLower ==
    /\ [](\A k \in 1..4 : pc \in {DisplayPc[k], ExecutePc[k]} =>
            /\ Len(plan) = 2
            /\ plan[2].x = plan[1].x /\ plan[2].y = plan[1].y
            /\ plan[2].orientation = plan[1].orientation
            /\ plan[1].z - plan[2].z = Drop[k])
    /\ [][Len(waypoints') >= Len(waypoints) =>
            \A i \in 1..Len(waypoints) :
                resolve(waypoints'[i], pose_goal')
                  = resolve(waypoints[i], pose_goal)]_vars

\* The screwing-pose approach has been planned: two poses 0.074 apart, after
\* the working pose was reused from the screw-head approach.
C20_Witness ==
    /\ pc = DisplayPc[4] /\ Len(plan) = 2
    /\ plan[1].z - plan[2].z = Drop[4]
    /\ plan[1].z = nut_pos.z + ScrewHover

====
